---- MODULE Spec2Model ----
(***************************************************************************)
(* Model of package lru: the count-bounded Cache with pinned entries       *)
(* (lru.go) and the weight-bounded SegmentCache (lru_segment.go).          *)
(*                                                                         *)
(* A state holds one cache instance (kind says which constructor built     *)
(* it), the mutex guarding it, and for every calling goroutine its         *)
(* position inside the public call it is executing.  A public call is      *)
(* split exactly where the code releases the mutex or hands control to     *)
(* the eviction callback; everything a goroutine does between two such     *)
(* points is one action.                                                   *)
(***************************************************************************)
EXTENDS Integers, Sequences, FiniteSets, TLC

\* ------------------------------------------------------------------ bounds
MaxKeys == 3
MaxSize == 2
MaxCapacity == 1
MaxWeight == 2
MaxCallers == 2

Keys == 1..MaxKeys
\* The payloads: the code stores and returns them and never looks inside, so two
\* distinct ones (the tests' "one" and "two") tell a replaced value from a kept
\* one; Nil is Go's nil, what Get returns for a key it does not find.
Vals == {"one", "two"}
Nil == "nil"
Weights == 0..MaxWeight
Callers == 1..MaxCallers
NoOne == 0

VARIABLES
    kind,             \* "Cache" or "SegmentCache": which constructor ran
    procs,            \* the goroutines that call the cache
    evictedCallback,  \* TRUE iff the evictedCallback field is non-nil
    lock,             \* holder of the mutex, NoOne when it is free
    size,             \* Cache.size
    cache,            \* Cache.cache: key -> entry
    q,                \* Cache.q: keys of the queued entries, front first
    capacity,         \* SegmentCache.capacity
    usedCapacity,     \* SegmentCache.usedCapacity
    segCache,         \* SegmentCache.cache: key -> entry
    segQ,             \* SegmentCache.q: keys of the queued entries, front first
    pc,               \* per goroutine: where it stands in its call
    inflight,         \* per goroutine: its unfinished Add or Unpin, and the cache
                      \* as that call left it before calling evict
    pending,          \* per goroutine: the key evict is handing to the callback
    call,             \* the public call started last, and by whom
    ret,              \* what that call returned, once it has returned
    evicted,          \* keys the callback received since that call started
    touch             \* unpinned keys of Cache by last touch, most recent first

vars == <<kind, procs, evictedCallback, lock, size, cache, q, capacity,
          usedCapacity, segCache, segQ, pc, inflight, pending, call, ret, evicted,
          touch>>

cacheVars == <<size, cache, q, touch>>
segVars == <<capacity, usedCapacity, segCache, segQ>>
constVars == <<kind, procs, evictedCallback>>

\* ------------------------------------------------- container/list, as used
PushFront(l, e) == <<e>> \o l

Back(l) == l[Len(l)]

Remove(l, e) == SelectSeq(l, LAMBDA x : x # e)

InList(l, e) == \E i \in 1..Len(l) : l[i] = e

MoveToFront(l, e) == IF InList(l, e) THEN <<e>> \o Remove(l, e) ELSE l

\* ------------------------------------------------------------ map helpers
Put(m, k, e) == [x \in DOMAIN m \cup {k} |-> IF x = k THEN e ELSE m[x]]

\* Mutant of Delete: the key stays in the map.
DeleteNot(m, k) == m

\* delete(m, k) of a Go map.
Delete(m, k) == [x \in DOMAIN m \ {k} |-> m[x]]

EmptyMap == [x \in {} |-> Nil]

\* ------------------------------------------------------------ call records
NoRet == [data |-> Nil, ok |-> FALSE, n |-> 0, err |-> FALSE]

NoCall == [proc |-> NoOne, op |-> "none", key |-> 0, data |-> Nil, weight |-> 0,
           hit |-> FALSE]

\* A call of o by p with key k and payload d; hit says whether k was in the index
\* when the call started, and w is the weight the call stored with a new entry
\* (0 when it stored none: Add ignores the weight of a key it finds).  HasKey
\* and IsPinned, which only report, are recorded without their key.
Call(p, o, k, d, w, h) ==
    [proc |-> p, op |-> o, key |-> k, data |-> d, weight |-> w, hit |-> h]

\* No unfinished call.
NoFlight ==
    [op |-> "none", key |-> 0, lru |-> 0, q |-> <<>>, keys |-> {}, used |-> 0,
     size |-> <<>>]

\* An unfinished call o (Add or Unpin) of key k that left queue l, index keys ks,
\* used capacity u and weights w behind; lru is the key that was last in the
\* queue when k was put first, 0 if the queue was empty.  What the call left
\* behind is what its evict finds only when no other goroutine calls the cache
\* in between: with several callers the call, its key and lru alone are kept.
\* lru is kept for a Cache, whose evict removes at most that one entry.
Flight(o, k, l, ks, u, w) ==
    LET last == IF kind = "Cache" /\ Len(l) > 1 THEN Back(l) ELSE 0 IN
    IF Cardinality(procs) = 1
    THEN [op |-> o, key |-> k, lru |-> last, q |-> l, keys |-> ks, used |-> u,
          size |-> w]
    ELSE [op |-> o, key |-> k, lru |-> last, q |-> <<>>, keys |-> {}, used |-> 0,
          size |-> <<>>]

\* sync.RWMutex.Lock: a goroutine proceeds only when nobody holds the mutex.
CanLock(p) == lock = NoOne

\* A goroutine can start a public call when its previous one has returned.
Idle(p) == p \in procs /\ pc[p] = "idle"

\* The bookkeeping of a call that starts: it becomes the call started last, and
\* the callback log starts afresh, as the tests clear theirs between calls
\* (lru_test.go:49).  Started: the call returns at once, with result r.
Started(p, c, r) ==
    /\ call' = c
    /\ ret' = r
    /\ evicted' = <<>>
    /\ UNCHANGED <<pc, inflight, pending>>

\* Entered: the call goes on to evict, leaving f behind.
Entered(p, c, f) ==
    /\ call' = c
    /\ ret' = NoRet
    /\ evicted' = <<>>
    /\ pc' = [pc EXCEPT ![p] = "evict"]
    /\ inflight' = [inflight EXCEPT ![p] = f]
    /\ UNCHANGED pending

\* The caller's call returns.
Returned(p) ==
    /\ pc' = [pc EXCEPT ![p] = "idle"]
    /\ inflight' = [inflight EXCEPT ![p] = NoFlight]

\* The least recently touched unpinned key is the last one of touch; a touch
\* puts the key first.
Touched(t, k) == <<k>> \o SelectSeq(t, LAMBDA x : x # k)

Forgotten(t, k) == SelectSeq(t, LAMBDA x : x # k)

\* ------------------------------------------------------------------ Cache
Entry(d, pin, pos) == [data |-> d, pinned |-> pin, position |-> pos]

Has(k) == k \in DOMAIN cache

\* lru.go:57 Len
CacheLen(p) ==
    /\ Idle(p) /\ kind = "Cache" /\ CanLock(p)
    /\ Started(p, Call(p, "Len", 0, Nil, 0, FALSE),
               [NoRet EXCEPT !.n = Cardinality(DOMAIN cache)])
    /\ UNCHANGED <<constVars, cacheVars, segVars, lock>>

\* lru.go:65 Size
Size(p) ==
    /\ Idle(p) /\ kind = "Cache" /\ CanLock(p)
    /\ Started(p, Call(p, "Size", 0, Nil, 0, FALSE), [NoRet EXCEPT !.n = size])
    /\ UNCHANGED <<constVars, cacheVars, segVars, lock>>

\* Mutant of Refreshed: the entry found is left where it is in the queue.
RefreshedNot(l, k, e) == l

\* lru.go:80 and lru.go:106 the queue after Get or Add found entry e of key k:
\* the entry moves to the front unless it is pinned.
Refreshed(l, k, e) == IF ~e.pinned THEN MoveToFront(l, k) ELSE l

\* lru.go:74 Get
Get(p, k) ==
    /\ Idle(p) /\ kind = "Cache" /\ CanLock(p)
    /\ IF Has(k)
       THEN /\ q' = Refreshed(q, k, cache[k])
            /\ touch' = IF ~cache[k].pinned THEN Touched(touch, k) ELSE touch
            /\ Started(p, Call(p, "Get", k, Nil, 0, TRUE),
                       [NoRet EXCEPT !.data = cache[k].data, !.ok = TRUE])
       ELSE /\ UNCHANGED <<q, touch>>
            /\ Started(p, Call(p, "Get", k, Nil, 0, FALSE), NoRet)
    /\ UNCHANGED <<constVars, size, cache, segVars, lock>>

\* lru.go:90 HasKey
HasKey(p, k) ==
    /\ Idle(p) /\ kind = "Cache" /\ CanLock(p)
    /\ Started(p, Call(p, "HasKey", 0, Nil, 0, Has(k)), [NoRet EXCEPT !.ok = Has(k)])
    /\ UNCHANGED <<constVars, cacheVars, segVars, lock>>

\* Mutant of Replaced: Add of an existing key keeps the old data.
ReplacedNot(e, d) == e

\* lru.go:109 the entry after Add replaced its data.
Replaced(e, d) == [e EXCEPT !.data = d]

\* lru.go:100 Add, up to the call of evict: the mutex is released at line 110
\* (existing key, the call returns) or at line 118 (new key, evict follows).
Add(p, k, d) ==
    /\ Idle(p) /\ kind = "Cache" /\ CanLock(p)
    /\ IF Has(k)
       THEN /\ q' = Refreshed(q, k, cache[k])
            /\ touch' = IF ~cache[k].pinned THEN Touched(touch, k) ELSE touch
            /\ cache' = [cache EXCEPT ![k] = Replaced(@, d)]
            /\ Started(p, Call(p, "Add", k, d, 0, TRUE), NoRet)
       ELSE /\ q' = PushFront(q, k)
            /\ touch' = Touched(touch, k)
            /\ cache' = Put(cache, k, Entry(d, FALSE, TRUE))
            /\ Entered(p, Call(p, "Add", k, d, 0, FALSE),
                       Flight("Add", k, q', DOMAIN cache', 0, <<>>))
    /\ UNCHANGED <<constVars, size, segVars, lock>>

\* Mutant of Unqueued: Pin marks the entry and leaves it in the queue.
UnqueuedNot(l, k) == l

\* lru.go:132 the queue after Pin took the entry of key k out of it.
Unqueued(l, k) == Remove(l, k)

\* lru.go:125 Pin
Pin(p, k) ==
    /\ Idle(p) /\ kind = "Cache" /\ CanLock(p)
    /\ IF Has(k) /\ ~cache[k].pinned
       THEN /\ cache' = [cache EXCEPT ![k].pinned = TRUE, ![k].position = FALSE]
            /\ q' = Unqueued(q, k)
            /\ touch' = Forgotten(touch, k)
       ELSE UNCHANGED <<cache, q, touch>>
    /\ Started(p, Call(p, "Pin", k, Nil, 0, Has(k)), NoRet)
    /\ UNCHANGED <<constVars, size, segVars, lock>>

\* lru.go:141-151 the mutex after Unpin(k) by p: line 147 releases it only
\* inside the branch that found k pinned; the other paths return with it held.
UnpinLock(p, found) == IF found THEN NoOne ELSE p

\* Mutant of PinnedEntry: Unpin does not look at the pin flag of the entry.
PinnedEntryAny(m, k) == k \in DOMAIN m

\* lru.go:143-144 the test of Unpin: the key has an entry and the entry is
\* pinned.
PinnedEntry(m, k) == k \in DOMAIN m /\ m[k].pinned

\* lru.go:140 Unpin, up to the call of evict.
Unpin(p, k) ==
    /\ Idle(p) /\ kind = "Cache" /\ CanLock(p)
    /\ LET found == PinnedEntry(cache, k) IN
       /\ IF found
          THEN /\ cache' = [cache EXCEPT ![k].pinned = FALSE, ![k].position = TRUE]
               /\ q' = PushFront(q, k)
               /\ touch' = Touched(touch, k)
               /\ Entered(p, Call(p, "Unpin", k, Nil, 0, TRUE),
                          Flight("Unpin", k, q', DOMAIN cache', 0, <<>>))
          ELSE /\ UNCHANGED <<cache, q, touch>>
               /\ Started(p, Call(p, "Unpin", k, Nil, 0, Has(k)), NoRet)
       /\ lock' = UnpinLock(p, found)
    /\ UNCHANGED <<constVars, size, segVars>>

\* Mutant of PinReport: a key that is not found is reported as not pinned, with
\* no error.
PinReportNoError(m, k) ==
    IF k \in DOMAIN m THEN [NoRet EXCEPT !.ok = m[k].pinned] ELSE NoRet

\* lru.go:159-162 what IsPinned returns for key k of index m: the pin flag and
\* no error, or false and an error when k is not found.
PinReport(m, k) ==
    IF k \in DOMAIN m
    THEN [NoRet EXCEPT !.ok = m[k].pinned]
    ELSE [NoRet EXCEPT !.err = TRUE]

\* lru.go:155 IsPinned
IsPinned(p, k) ==
    /\ Idle(p) /\ kind = "Cache" /\ CanLock(p)
    /\ Started(p, Call(p, "IsPinned", 0, Nil, 0, Has(k)), PinReport(cache, k))
    /\ UNCHANGED <<constVars, cacheVars, segVars, lock>>

\* Mutant of Over: the comparison is off by one, so a full queue plus one stays.
OverLate(n, limit) == n > limit + 1

\* Mutant of Over: evict already removes an entry when the queue is just full.
OverEarly(n, limit) == n >= limit

\* lru.go:178 the test that decides whether evict removes an entry.
Over(n, limit) == n > limit

\* Mutant of Victim: evict removes the front of the queue, the entry touched last.
VictimFront(l) == l[1]

\* lru.go:179 the entry evict removes.
Victim(l) == Back(l)

\* Mutant of Invoke: evict removes the entry and does not call the callback.
InvokeNot(log, k) == log

\* lru.go:181-183 and lru_segment.go:142-144 the callback is called with the
\* key; the tests' callback appends it to their log (lru_test.go:12).
Invoke(log, k) == Append(log, k)

\* Mutant of Holding: evict releases the mutex before it calls the callback.
HoldingNot(p) == NoOne

\* lru.go:175-176, lru_segment.go:137 and 146 the holder of the mutex while p's
\* evict calls the callback: evict took it and releases it only after the call
\* (the deferred unlock, the unlock after the loop).
Holding(p) == p

\* lru.go:174 evict, up to the call of the callback.  The mutex is taken at
\* line 175 and, the unlock being deferred, is still held while the callback
\* runs.
Evict(p) ==
    /\ p \in procs /\ pc[p] = "evict" /\ kind = "Cache" /\ CanLock(p)
    /\ IF Over(Len(q), size)
       THEN LET k == Victim(q) IN
            /\ q' = Remove(q, k)
            /\ cache' = Delete(cache, k)
            /\ touch' = Forgotten(touch, k)
            /\ IF evictedCallback
               THEN /\ pending' = [pending EXCEPT ![p] = k]
                    /\ pc' = [pc EXCEPT ![p] = "callback"]
                    /\ lock' = Holding(p)
                    /\ UNCHANGED inflight
               ELSE /\ Returned(p)
                    /\ UNCHANGED <<pending, lock>>
       ELSE /\ Returned(p)
            /\ UNCHANGED <<cache, q, touch, pending, lock>>
    /\ UNCHANGED <<constVars, size, segVars, call, ret, evicted>>

\* lru.go:182 the callback runs with the evicted key, then evict returns and
\* the deferred unlock of line 176 runs.
Callback(p) ==
    /\ p \in procs /\ pc[p] = "callback" /\ kind = "Cache" /\ lock = p
    /\ evicted' = Invoke(evicted, pending[p])
    /\ pending' = [pending EXCEPT ![p] = 0]
    /\ Returned(p)
    /\ lock' = NoOne
    /\ UNCHANGED <<constVars, cacheVars, segVars, call, ret>>

\* ----------------------------------------------------------- SegmentCache
\* Mutant of SegEntry: the new entry is built without its weight.
SegEntryNoSize(d, w) == [data |-> d, size |-> 0, position |-> TRUE]

\* lru_segment.go:119-120 the entry Add builds for a new key.
SegEntry(d, w) == [data |-> d, size |-> w, position |-> TRUE]

SegHas(k) == k \in DOMAIN segCache

\* The weight recorded for each entry of the index.
SegSizes(m) == [k \in DOMAIN m |-> m[k].size]

\* lru_segment.go:60 Len
SegLen(p) ==
    /\ Idle(p) /\ kind = "SegmentCache" /\ CanLock(p)
    /\ Started(p, Call(p, "Len", 0, Nil, 0, FALSE),
               [NoRet EXCEPT !.n = Cardinality(DOMAIN segCache)])
    /\ UNCHANGED <<constVars, cacheVars, segVars, lock>>

\* lru_segment.go:68 Capacity
Capacity(p) ==
    /\ Idle(p) /\ kind = "SegmentCache" /\ CanLock(p)
    /\ Started(p, Call(p, "Capacity", 0, Nil, 0, FALSE), [NoRet EXCEPT !.n = capacity])
    /\ UNCHANGED <<constVars, cacheVars, segVars, lock>>

\* lru_segment.go:76 UsedCapacity
UsedCapacity(p) ==
    /\ Idle(p) /\ kind = "SegmentCache" /\ CanLock(p)
    /\ Started(p, Call(p, "UsedCapacity", 0, Nil, 0, FALSE),
               [NoRet EXCEPT !.n = usedCapacity])
    /\ UNCHANGED <<constVars, cacheVars, segVars, lock>>

\* lru_segment.go:85 Get
SegGet(p, k) ==
    /\ Idle(p) /\ kind = "SegmentCache" /\ CanLock(p)
    /\ IF SegHas(k)
       THEN /\ segQ' = MoveToFront(segQ, k)
            /\ Started(p, Call(p, "Get", k, Nil, 0, TRUE),
                       [NoRet EXCEPT !.data = segCache[k].data, !.ok = TRUE])
       ELSE /\ UNCHANGED segQ
            /\ Started(p, Call(p, "Get", k, Nil, 0, FALSE), NoRet)
    /\ UNCHANGED <<constVars, cacheVars, capacity, usedCapacity, segCache, lock>>

\* lru_segment.go:98 HasKey
SegHasKey(p, k) ==
    /\ Idle(p) /\ kind = "SegmentCache" /\ CanLock(p)
    /\ Started(p, Call(p, "HasKey", 0, Nil, 0, SegHas(k)),
               [NoRet EXCEPT !.ok = SegHas(k)])
    /\ UNCHANGED <<constVars, cacheVars, segVars, lock>>

\* Mutant of SegReplaced: Add of an existing key also records the new weight.
SegReplacedSize(e, d, w) == [e EXCEPT !.data = d, !.size = w]

\* lru_segment.go:114 the entry after Add(key, d, w) found it: the data is
\* replaced and the weight argument is not used.
SegReplaced(e, d, w) == Replaced(e, d)

\* lru_segment.go:108 Add, up to the call of evict: the mutex is released at
\* line 115 (existing key, the call returns) or at line 123 (new key).
SegAdd(p, k, d, w) ==
    /\ Idle(p) /\ kind = "SegmentCache" /\ CanLock(p)
    /\ IF SegHas(k)
       THEN /\ segQ' = MoveToFront(segQ, k)
            /\ segCache' = [segCache EXCEPT ![k] = SegReplaced(@, d, w)]
            /\ UNCHANGED usedCapacity
            /\ Started(p, Call(p, "Add", k, d, 0, TRUE), NoRet)
       ELSE /\ segQ' = PushFront(segQ, k)
            /\ usedCapacity' = usedCapacity + w
            /\ segCache' = Put(segCache, k, SegEntry(d, w))
            /\ Entered(p, Call(p, "Add", k, d, w, FALSE),
                       Flight("Add", k, segQ', DOMAIN segCache', usedCapacity',
                              SegSizes(segCache')))
    /\ UNCHANGED <<constVars, cacheVars, capacity, lock>>

\* Mutant of SegOver: the loop stops one unit above the capacity.
SegOverLate(used, limit) == used > limit + 1

\* Mutant of SegOver: the loop goes on while the cache is exactly full.
SegOverEarly(used, limit) == used >= limit

\* lru_segment.go:138 the loop condition of evict.
SegOver(used, limit) == used > limit

\* lru_segment.go:139 the entry an iteration removes.
SegVictim(l) == Back(l)

\* Mutant of Released: evict forgets to give the weight of the entry back.
ReleasedNot(used, w) == used

\* lru_segment.go:140 the used capacity after evict removed an entry of weight w.
Released(used, w) == used - w

\* lru_segment.go:136 evict: one test of the loop condition, taking the mutex
\* first (line 137) when the loop is entered.  An iteration removes the back
\* entry and calls the callback; the exit releases the mutex (line 146).
\* Back() of an empty list is nil and Remove(nil) panics.
SegEvict(p) ==
    /\ p \in procs /\ kind = "SegmentCache"
    /\ \/ pc[p] = "evict" /\ CanLock(p)
       \/ pc[p] = "loop" /\ lock = p
    /\ IF SegOver(usedCapacity, capacity)
       THEN IF Len(segQ) = 0
            THEN /\ pc' = [pc EXCEPT ![p] = "panic"]
                 /\ lock' = p
                 /\ UNCHANGED <<segQ, usedCapacity, segCache, pending>>
            ELSE LET k == SegVictim(segQ) IN
                 /\ segQ' = Remove(segQ, k)
                 /\ usedCapacity' = Released(usedCapacity, segCache[k].size)
                 /\ segCache' = Delete(segCache, k)
                 /\ lock' = Holding(p)
                 /\ IF evictedCallback
                    THEN /\ pending' = [pending EXCEPT ![p] = k]
                         /\ pc' = [pc EXCEPT ![p] = "callback"]
                    ELSE /\ pc' = [pc EXCEPT ![p] = "loop"]
                         /\ UNCHANGED pending
       ELSE /\ pc' = [pc EXCEPT ![p] = "stats"]
            /\ lock' = NoOne
            /\ UNCHANGED <<segQ, usedCapacity, segCache, pending>>
    /\ UNCHANGED <<constVars, cacheVars, capacity, inflight, call, ret, evicted>>

\* lru_segment.go:143 the callback runs with the evicted key, inside the loop.
SegCallback(p) ==
    /\ p \in procs /\ pc[p] = "callback" /\ kind = "SegmentCache" /\ lock = p
    /\ evicted' = Invoke(evicted, pending[p])
    /\ pending' = [pending EXCEPT ![p] = 0]
    /\ pc' = [pc EXCEPT ![p] = "loop"]
    /\ UNCHANGED <<constVars, cacheVars, segVars, inflight, call, ret, lock>>

\* lru_segment.go:148 evict ends with PrintStats (line 128), which takes and
\* releases the mutex once more; then Add returns.
PrintStats(p) ==
    /\ p \in procs /\ pc[p] = "stats" /\ kind = "SegmentCache" /\ CanLock(p)
    /\ Returned(p)
    /\ UNCHANGED <<constVars, cacheVars, segVars, call, ret, pending, evicted, lock>>

\* lru.go:182, lru_segment.go:143 a callback that calls a public method of the
\* cache that called it.  Every public method starts with lock.Lock() (lru.go:58,
\* 66, 75, 91, 101, 126, 141, 156; lru_segment.go:61, 69, 77, 86, 99, 109), and
\* sync.RWMutex is not reentrant: p goes on only if nobody, p included, holds the
\* mutex, and waits in Lock() otherwise, trying again at every later step.
Reenter(p) ==
    /\ p \in procs /\ pc[p] \in {"callback", "blocked"}
    /\ pc' = [pc EXCEPT ![p] = IF CanLock(p) THEN "reentered" ELSE "blocked"]
    /\ UNCHANGED <<constVars, cacheVars, segVars, lock, inflight, pending, call,
                   ret, evicted>>

\* ------------------------------------------------------------ the machine
\* lru.go:45 NewCache, lru_segment.go:48 NewSegmentCache.
New(ps) ==
    /\ procs = ps
    /\ kind \in {"Cache", "SegmentCache"}
    /\ evictedCallback \in BOOLEAN
    /\ lock = NoOne
    /\ size \in IF kind = "Cache" THEN 0..MaxSize ELSE {0}
    /\ cache = EmptyMap
    /\ q = <<>>
    /\ capacity \in IF kind = "SegmentCache" THEN 0..MaxCapacity ELSE {0}
    /\ usedCapacity = 0
    /\ segCache = EmptyMap
    /\ segQ = <<>>
    /\ touch = <<>>
    /\ pc = [p \in Callers |-> "idle"]
    /\ inflight = [p \in Callers |-> NoFlight]
    /\ pending = [p \in Callers |-> 0]
    /\ call = NoCall
    /\ ret = NoRet
    /\ evicted = <<>>

Init == New(Callers)

InitSingle == New({1})

InitCacheSingle == InitSingle /\ kind = "Cache"

InitSegSingle == InitSingle /\ kind = "SegmentCache"

InitCallback == InitSingle /\ evictedCallback

NextCache ==
    \/ \E p \in procs : CacheLen(p)
    \/ \E p \in procs : Size(p)
    \/ \E p \in procs, k \in Keys : Get(p, k)
    \/ \E p \in procs, k \in Keys : HasKey(p, k)
    \/ \E p \in procs, k \in Keys, d \in Vals : Add(p, k, d)
    \/ \E p \in procs, k \in Keys : Pin(p, k)
    \/ \E p \in procs, k \in Keys : Unpin(p, k)
    \/ \E p \in procs, k \in Keys : IsPinned(p, k)
    \/ \E p \in procs : Evict(p)
    \/ \E p \in procs : Callback(p)

NextSeg ==
    \/ \E p \in procs : SegLen(p)
    \/ \E p \in procs : Capacity(p)
    \/ \E p \in procs : UsedCapacity(p)
    \/ \E p \in procs, k \in Keys : SegGet(p, k)
    \/ \E p \in procs, k \in Keys : SegHasKey(p, k)
    \/ \E p \in procs, k \in Keys, d \in Vals, w \in Weights : SegAdd(p, k, d, w)
    \/ \E p \in procs : SegEvict(p)
    \/ \E p \in procs : SegCallback(p)
    \/ \E p \in procs : PrintStats(p)

Next == NextCache \/ NextSeg

\* Any number of goroutines calling one cache.
Spec == Init /\ [][Next]_vars

\* One goroutine calling one cache.
SpecSingle == InitSingle /\ [][Next]_vars

\* One goroutine calling one cache that was built with a callback.
SpecCallback == InitCallback /\ [][Next]_vars

\* One goroutine calling a Cache.
CacheSingle == InitCacheSingle /\ [][NextCache]_vars

\* One goroutine calling a SegmentCache.
SegSingle == InitSegSingle /\ [][NextSeg]_vars

\* The callers' steps and those of a callback that calls the cache.
NextReentrant == Next \/ \E p \in procs : Reenter(p)

\* One goroutine calling one cache whose callback may call the cache again.
SpecReentrant == InitSingle /\ [][NextReentrant]_vars

\* ------------------------------------------------------------ the claims
AllIdle == \A p \in procs : pc[p] = "idle"

Pinned == {k \in DOMAIN cache : cache[k].pinned}

Unpinned == {k \in DOMAIN cache : ~cache[k].pinned}

\* C1: Cache, one caller, size >= 0: whenever the caller's call has returned, the
\* number of unpinned entries, which is the length of the queue, is at most size,
\* so that Len() exceeds size by at most the number of pinned entries.
C1_UnpinnedWithinSize ==
    (kind = "Cache" /\ AllIdle) =>
        /\ Cardinality(Unpinned) <= size
        /\ Len(q) = Cardinality(Unpinned)
        /\ Cardinality(DOMAIN cache) <= size + Cardinality(Pinned)

\* An Add or Unpin has just evicted an entry, the queue is full, and pinned
\* entries make Len() exceed size.
C1_Witness ==
    /\ kind = "Cache" /\ AllIdle
    /\ call.op \in {"Add", "Unpin"} /\ evicted # <<>>
    /\ Len(q) = size /\ size >= 1
    /\ Pinned # {}
    /\ Cardinality(DOMAIN cache) > size

\* C2: Cache: the entry a step of evict removes is the least recently touched of
\* the unpinned entries at that moment (the last of touch); it is not pinned, and
\* when size >= 1 it is not the key the unfinished Add or Unpin just put in.
C2_EvictsLeastRecentlyTouched ==
    [][\A p \in procs :
        (Evict(p) /\ DOMAIN cache' # DOMAIN cache) =>
            \E v \in DOMAIN cache :
                /\ DOMAIN cache' = DOMAIN cache \ {v}
                /\ touch # <<>> /\ v = touch[Len(touch)]
                /\ ~cache[v].pinned
                /\ (size >= 1 => v # inflight[p].key)
                /\ ~InList(q', v)]_vars

\* An entry has just been evicted while another one is pinned and a third one,
\* touched more recently, stays queued.
C2_Witness ==
    /\ kind = "Cache" /\ size >= 1
    /\ \E p \in procs : pc[p] = "callback" /\ pending[p] \in Keys
    /\ Pinned # {}
    /\ Len(q) >= 1

\* C3: SegmentCache, capacity >= 0, weights >= 0: whenever the caller's Add has
\* returned, UsedCapacity() <= Capacity().
C3_UsedWithinCapacity ==
    (kind = "SegmentCache" /\ AllIdle) => usedCapacity <= capacity

\* An Add of a weight above the capacity has returned: it evicted the other
\* entries and then its own.
C3_Witness ==
    /\ kind = "SegmentCache" /\ AllIdle
    /\ call.op = "Add" /\ ~call.hit /\ call.weight > capacity
    /\ Len(evicted) >= 2
    /\ usedCapacity = 0

RECURSIVE SumLast(_, _, _)
\* The weights w of the last n keys of l, added up.
SumLast(l, w, n) ==
    IF n = 0 THEN 0 ELSE w[l[Len(l) - n + 1]] + SumLast(l, w, n - 1)

\* Removing the last n entries of the queue that Add left brings the used
\* capacity to the capacity or below.
Enough(f, n) == f.used - SumLast(f.q, f.size, n) <= capacity

\* The least such n.
ShortestCut(f) ==
    CHOOSE n \in 0..Len(f.q) : Enough(f, n) /\ \A m \in 0..(n - 1) : ~Enough(f, m)

\* The last n keys of l, the last one first.
LastFirst(l, n) == [i \in 1..n |-> l[Len(l) - i + 1]]

\* C4: SegmentCache: when the evict of an Add of a new key has finished, what it
\* removed is the shortest run of entries from the back of the queue, as Add left
\* it, that brings the used capacity to the capacity or below, removed back
\* first; a new entry heavier than the capacity has taken every other entry and
\* then itself with it, leaving Len() = 0 and UsedCapacity() = 0.
C4_EvictsShortestTail ==
    \A p \in procs :
        (kind = "SegmentCache" /\ pc[p] = "stats") =>
            LET f == inflight[p]
                n == ShortestCut(f)
            IN /\ segQ = SubSeq(f.q, 1, Len(f.q) - n)
               /\ DOMAIN segCache = {segQ[i] : i \in 1..Len(segQ)}
               /\ usedCapacity = f.used - SumLast(f.q, f.size, n)
               /\ evictedCallback => evicted = LastFirst(f.q, n)
               /\ f.size[f.key] > capacity =>
                      /\ n = Len(f.q)
                      /\ segCache = EmptyMap
                      /\ usedCapacity = 0
                      /\ evictedCallback => evicted[n] = f.key

\* An Add has evicted two entries and kept the new one.
C4_Witness ==
    /\ kind = "SegmentCache"
    /\ \E p \in procs :
        /\ pc[p] = "stats"
        /\ Len(evicted) = 2
        /\ segQ = <<inflight[p].key>>

\* The keys of the index and the queue of the cache that was built.
Index == IF kind = "Cache" THEN DOMAIN cache ELSE DOMAIN segCache

Queue == IF kind = "Cache" THEN q ELSE segQ

Range(l) == {l[i] : i \in 1..Len(l)}

\* The step in which p's Add or Unpin returns.
Returns(p) == pc[p] # "idle" /\ pc'[p] = "idle"

\* C5: both caches, one caller: when the callback is about to be called, its key
\* has left the index and the queue; when the Add or Unpin returns, the callback
\* has been called once for each entry the call removed, and for no other, in the
\* order of removal, which is from the back of the queue the call left; a call
\* that removes nothing calls nothing.
C5_CallbackOncePerEviction ==
    [][\A p \in procs :
        /\ pc[p] = "callback" =>
              /\ pending[p] \in inflight[p].keys
              /\ pending[p] \notin Index
              /\ ~InList(Queue, pending[p])
        /\ (Returns(p) /\ evictedCallback) =>
              LET f == inflight[p]
                  gone == f.keys \ Index'
              IN /\ Len(evicted') = Cardinality(gone)
                 /\ Range(evicted') = gone
                 /\ evicted' = LastFirst(f.q, Len(evicted'))
                 /\ \A i \in 1..Len(evicted') : pending'[p] # evicted'[i]
        /\ (Returns(p) /\ ~evictedCallback) => evicted' = <<>>
        /\ (AllIdle /\ AllIdle') => (evicted' = <<>> /\ Index' = Index)]_vars

\* An Add has returned after the callback was called for two entries, in turn.
C5_Witness ==
    /\ kind = "SegmentCache" /\ AllIdle /\ evictedCallback
    /\ call.op = "Add"
    /\ Len(evicted) = 2 /\ evicted[1] # evicted[2]
    /\ DOMAIN segCache # {}

\* C6: Cache: a pinned key stays in the index, pinned, through every step that is
\* not Unpin of that key; it is never handed to the callback.
C6_PinnedStays ==
    [][\A k \in Keys :
        (Has(k) /\ cache[k].pinned) =>
            /\ k \in DOMAIN cache'
            /\ cache'[k].pinned \/ \E p \in procs : Unpin(p, k)
            /\ \A p \in procs : pending'[p] # k
            /\ ~InList(evicted, k) /\ ~InList(evicted', k)]_vars

\* An Add of a new key has evicted an entry while another one was pinned; the
\* pinned one is still there and keeps Len() above size.
C6_Witness ==
    /\ kind = "Cache" /\ AllIdle
    /\ call.op = "Add" /\ ~call.hit /\ evicted # <<>>
    /\ Pinned # {}
    /\ Cardinality(DOMAIN cache) = size + 1

\* C7: Cache: Unpin of a pinned key k marks it unpinned and puts it first in the
\* queue, then evict runs; when Unpin returns and size >= 1, k is in the index,
\* unpinned and first in the queue, and if the queue was at size before, exactly
\* its last key, which is not k, has been removed.
C7_UnpinPutsFirst ==
    [][\A p \in procs, k \in Keys :
        /\ (Unpin(p, k) /\ Has(k) /\ cache[k].pinned) =>
              /\ ~cache'[k].pinned
              /\ q' = <<k>> \o q
              /\ DOMAIN cache' = DOMAIN cache
              /\ pc'[p] = "evict"
        /\ (call.op = "Unpin" /\ call.key = k /\ Returns(p) /\ size >= 1) =>
              LET f == inflight[p] IN
              /\ k \in DOMAIN cache' /\ ~cache'[k].pinned
              /\ q'[1] = k
              /\ IF Len(f.q) > size
                 THEN /\ Back(f.q) # k
                      /\ DOMAIN cache' = f.keys \ {Back(f.q)}
                      /\ q' = SubSeq(f.q, 1, Len(f.q) - 1)
                      /\ evictedCallback => evicted' = <<Back(f.q)>>
                 ELSE /\ DOMAIN cache' = f.keys
                      /\ q' = f.q
                      /\ evicted' = <<>>]_vars

\* An Unpin has returned: the key is first in the queue and another key has been
\* evicted.
C7_Witness ==
    /\ kind = "Cache" /\ AllIdle /\ size >= 1
    /\ call.op = "Unpin" /\ call.hit
    /\ evicted # <<>>
    /\ q # <<>> /\ q[1] = call.key

\* What Get returns when it finds data d.
Found(d) == [NoRet EXCEPT !.data = d, !.ok = TRUE]

\* C8: both caches: Get of a present key returns its data and true, returns at
\* once, leaves the index (keys, data, pin flags, weights) and the used capacity
\* as they were and calls no callback; the key is then first in the queue and the
\* other keys keep their order, except that a pinned key of Cache leaves the
\* queue untouched.
C8_GetRefreshesOnly ==
    [][call'.op = "Get" => \A p \in procs, k \in Keys :
        /\ (Get(p, k) /\ Has(k)) =>
              /\ ret' = Found(cache[k].data)
              /\ cache' = cache
              /\ evicted' = <<>> /\ AllIdle'
              /\ IF cache[k].pinned
                 THEN q' = q
                 ELSE q' = <<k>> \o SelectSeq(q, LAMBDA x : x # k)
        /\ (SegGet(p, k) /\ SegHas(k)) =>
              /\ ret' = Found(segCache[k].data)
              /\ segCache' = segCache /\ usedCapacity' = usedCapacity
              /\ evicted' = <<>> /\ AllIdle'
              /\ segQ' = <<k>> \o SelectSeq(segQ, LAMBDA x : x # k)]_vars

\* A Get has found a key that was not first in the queue of three, and a pinned
\* key is in the index.
C8_Witness ==
    /\ kind = "Cache" /\ AllIdle
    /\ call.op = "Get" /\ ret.ok
    /\ Len(q) >= 2 /\ q[1] = call.key
    /\ Pinned # {}

\* The step is Get(k) by the caller whose Add(k, ...) was the call before.
GetAfterAdd ==
    /\ call.op = "Add" /\ AllIdle
    /\ \/ kind = "Cache" /\ size > 0 /\ Get(call.proc, call.key)
       \/ kind = "SegmentCache" /\ capacity > 0 /\ SegGet(call.proc, call.key)

\* C9 as stated: with size or capacity > 0, Get(k) right after Add(k, v[, w])
\* returns (v, true), for every weight w >= 0.
C9_Original ==
    [][GetAfterAdd => ret' = Found(call.data)]_vars

\* C9, amended: with size or capacity > 0, Get(k) right after Add(k, v[, w])
\* returns (v, true), whether k was new, present or pinned, unless the Add put a
\* new key of a weight above the capacity into a SegmentCache.
C9_AddThenGet ==
    [][(GetAfterAdd /\ (kind = "SegmentCache" => call.hit \/ call.weight <= capacity))
            => ret' = Found(call.data)]_vars

\* An Add of a new key, of a weight the capacity can hold, has returned after
\* evicting an older entry.
C9_Witness ==
    /\ kind = "SegmentCache" /\ AllIdle /\ capacity > 0
    /\ call.op = "Add" /\ ~call.hit /\ call.weight <= capacity
    /\ evicted # <<>>
    /\ call.key \in DOMAIN segCache

\* C10: whenever every call has returned, the mutex is free, so that the next
\* call can take it.
C10_ReturnsUnlocked == AllIdle => lock = NoOne

\* The cache holds more than its bound: the state an Add or Unpin leaves between
\* its insertion and the evict that follows it.
Overfull ==
    IF kind = "Cache" THEN Over(Len(q), size) ELSE SegOver(usedCapacity, capacity)

\* The step is a call of an accessor by p.
Accessor(p) ==
    \/ CacheLen(p) \/ Size(p) \/ SegLen(p) \/ Capacity(p) \/ UsedCapacity(p)
    \/ \E k \in Keys : HasKey(p, k) \/ IsPinned(p, k) \/ SegHasKey(p, k)
    \/ \E k \in Keys : Get(p, k) \/ SegGet(p, k)

\* C11: several callers: an accessor never runs on the overfull cache that an Add
\* or Unpin leaves between its insertion and its eviction; UsedCapacity() never
\* returns more than the capacity, and Len() of a Cache never more than size plus
\* the number of pinned entries.
C11_AccessorsSeeNoOverflow ==
    [][\A p \in procs :
        /\ Accessor(p) => ~Overfull
        /\ UsedCapacity(p) => ret'.n <= capacity
        /\ CacheLen(p) => ret'.n <= size + Cardinality(Pinned)]_vars

\* C12: Cache: IsPinned(k) returns an error exactly when k is not in the index,
\* and with it false; for a key of the index it returns the key's pin flag and
\* no error; either way the index with its data and pin flags and the queue stay
\* as they were, and the call returns at once.
C12_IsPinnedErrorIffAbsent ==
    [][call'.op = "IsPinned" => \A p \in procs, k \in Keys :
        IsPinned(p, k) =>
            /\ ret'.err <=> k \notin DOMAIN cache
            /\ ret'.ok <=> (k \in DOMAIN cache /\ cache[k].pinned)
            /\ ret'.data = Nil
            /\ cache' = cache /\ q' = q /\ size' = size
            /\ evicted' = <<>> /\ AllIdle']_vars

\* IsPinned has returned an error for a key that is not in the index, while
\* the index holds a pinned and a queued entry.
C12_Witness ==
    /\ kind = "Cache" /\ AllIdle
    /\ call.op = "IsPinned" /\ ret.err /\ ~call.hit
    /\ Pinned # {} /\ q # <<>>

\* The step is a call by p that the interface describes as reading only or as
\* doing nothing.  (The tests of call' add nothing: they spare evaluating the
\* calls that the step cannot be.)
ReadOnly(p) ==
    \/ /\ call'.key = 0
       /\ \/ CacheLen(p) \/ Size(p) \/ SegLen(p) \/ Capacity(p) \/ UsedCapacity(p)
          \/ \E k \in Keys : HasKey(p, k) \/ SegHasKey(p, k)
    \/ \E k \in Keys :
          /\ call'.key = k
          /\ \/ Get(p, k) /\ ~Has(k)
             \/ SegGet(p, k) /\ ~SegHas(k)
             \/ Pin(p, k) /\ (~Has(k) \/ cache[k].pinned)
             \/ Unpin(p, k) /\ (~Has(k) \/ ~cache[k].pinned)

\* C13: both caches: HasKey, Get of a key that is not in the index, Len, Size,
\* Capacity, UsedCapacity, Pin of a key that is not in the index or is pinned
\* already, and Unpin of a key that is not in the index or is not pinned leave
\* the index (keys, data, pin flags, weights), the queue and the used capacity
\* as they were, start no eviction and call no callback; such a Get returns
\* (nil, false).
C13_ReadOnlyChangesNothing ==
    [][call'.op \notin {"none", "Add", "IsPinned"} => \A p \in procs :
        /\ ReadOnly(p) =>
              /\ cache' = cache /\ q' = q /\ size' = size
              /\ segCache' = segCache /\ segQ' = segQ
              /\ usedCapacity' = usedCapacity /\ capacity' = capacity
              /\ evicted' = <<>> /\ pending' = pending
              /\ pc' = pc
        /\ \A k \in {call'.key} \cap Keys :
              ((Get(p, k) /\ ~Has(k)) \/ (SegGet(p, k) /\ ~SegHas(k))) => ret' = NoRet]_vars

\* An Unpin of a key that is not in the index has returned; the index holds a
\* pinned and a queued entry.
C13_Witness ==
    /\ kind = "Cache" /\ AllIdle
    /\ call.op = "Unpin" /\ ~call.hit
    /\ Pinned # {} /\ q # <<>>

\* List l with key k put first and the other keys in their order.
First(l, k) == <<k>> \o SelectSeq(l, LAMBDA x : x # k)

\* C14: both caches: Add of a key k that is in the index stores the new data
\* with k and changes nothing else of the index: the keys, the other entries,
\* k's pin flag and k's weight stay, whatever weight the call names, and so
\* does the used capacity; no eviction starts and no callback is called; k is
\* then first in the queue, except that a pinned key of Cache stays pinned and
\* out of the queue, which is left as it was.  (The step of such an Add records
\* the call with its key and data; the formula reads them there.)
C14_ReAddReplacesValueOnly ==
    [][(call'.op = "Add" /\ call'.hit) =>
        \A p \in procs, k \in {call'.key}, d \in {call'.data} :
        /\ (Has(k) /\ Add(p, k, d)) =>
              /\ DOMAIN cache' = DOMAIN cache
              /\ \A x \in DOMAIN cache \ {k} : cache'[x] = cache[x]
              /\ cache'[k].data = d
              /\ cache'[k].pinned = cache[k].pinned
              /\ size' = size
              /\ IF cache[k].pinned
                 THEN q' = q /\ ~InList(q', k)
                 ELSE q' = First(q, k)
              /\ evicted' = <<>> /\ pc' = pc
        /\ (SegHas(k) /\ \E w \in Weights : SegAdd(p, k, d, w)) =>
              /\ DOMAIN segCache' = DOMAIN segCache
              /\ \A x \in DOMAIN segCache \ {k} : segCache'[x] = segCache[x]
              /\ segCache'[k].data = d
              /\ segCache'[k].size = segCache[k].size
              /\ usedCapacity' = usedCapacity /\ capacity' = capacity
              /\ segQ' = First(segQ, k)
              /\ evicted' = <<>> /\ pc' = pc]_vars

\* An Add of a key of the index, with an entry of weight above zero, has
\* returned: the key is first in a queue of several and the cache is still full.
C14_Witness ==
    /\ kind = "SegmentCache" /\ AllIdle
    /\ call.op = "Add" /\ call.hit
    /\ Len(segQ) >= 2 /\ segQ[1] = call.key
    /\ segCache[call.key].size > 0
    /\ usedCapacity = capacity

\* C15: both caches: whenever every call has returned, no key occurs twice in
\* the queue, every key of the queue is in the index and every unpinned key of
\* the index is in the queue; in a Cache an entry is pinned exactly when it has
\* no position in the queue, so that the queue is as long as Len() less the
\* number of pinned entries; a SegmentCache queues every entry.
C15_IndexMatchesQueue ==
    AllIdle =>
        /\ \A i, j \in 1..Len(Queue) : Queue[i] = Queue[j] => i = j
        /\ Range(Queue) \subseteq Index
        /\ kind = "Cache" =>
              /\ Unpinned \subseteq Range(q)
              /\ \A k \in DOMAIN cache :
                    /\ cache[k].pinned <=> ~cache[k].position
                    /\ cache[k].position <=> InList(q, k)
              /\ Len(q) = Cardinality(DOMAIN cache) - Cardinality(Pinned)
        /\ kind = "SegmentCache" =>
              /\ DOMAIN segCache \subseteq Range(segQ)
              /\ \A k \in DOMAIN segCache : segCache[k].position
              /\ Len(segQ) = Cardinality(DOMAIN segCache)

\* An Unpin has returned after evicting the queued entry, while another entry
\* is pinned: the index holds a pinned key and a queued one.
C15_Witness ==
    /\ kind = "Cache" /\ AllIdle
    /\ call.op = "Unpin" /\ evicted # <<>>
    /\ Pinned # {} /\ Len(q) >= 1
    /\ q[1] = call.key

RECURSIVE SumSizes(_, _)
\* The weights that index m records for the keys of ks, added up.
SumSizes(m, ks) ==
    IF ks = {} THEN 0
    ELSE LET k == CHOOSE x \in ks : TRUE IN m[k].size + SumSizes(m, ks \ {k})

\* The used capacity is the sum of the weights recorded in the index.
UsedIsSum == usedCapacity = SumSizes(segCache, DOMAIN segCache)

\* C16: SegmentCache: in every state, also inside an Add, the used capacity is
\* the sum of the weights recorded with the entries of the index, and the weight
\* recorded with an entry is the one of the Add that put the key in: no later
\* step changes it while the key stays in the index.
C16_UsedIsSumOfWeights ==
    /\ [](kind = "SegmentCache" => UsedIsSum)
    /\ [][kind = "SegmentCache" =>
          /\ \A k \in DOMAIN segCache \cap DOMAIN segCache' :
                segCache'[k].size = segCache[k].size
          /\ \A k \in DOMAIN segCache' \ DOMAIN segCache :
                /\ call'.op = "Add" /\ call'.key = k /\ ~call'.hit
                /\ segCache'[k].size = call'.weight]_vars

\* An Add of a new key has returned after evicting an entry; two entries are
\* left and their weights add up to a used capacity above zero.
C16_Witness ==
    /\ kind = "SegmentCache" /\ AllIdle
    /\ call.op = "Add" /\ ~call.hit /\ evicted # <<>>
    /\ Len(segQ) >= 2 /\ usedCapacity > 0
    /\ UsedIsSum

RECURSIVE EvictLoop(_, _)
\* The eviction the interface describes, run on queue l with bound n: while the
\* queue is longer than n, remove its last key and hand it to the callback.
\* The result is the queue left and the keys removed, in the order of removal.
EvictLoop(l, n) ==
    IF Len(l) > n
    THEN LET r == EvictLoop(SubSeq(l, 1, Len(l) - 1), n)
         IN [q |-> r.q, gone |-> <<Back(l)>> \o r.gone]
    ELSE [q |-> l, gone |-> <<>>]

\* C17: Cache: from every state in which evict runs, with one caller or with
\* several, evict leaves the queue and the index that the loop would leave, and
\* hands the callback the keys the loop would hand it: at most one, the last of
\* the queue.
C17_EvictEqualsLoop ==
    [][\A p \in procs :
        Evict(p) =>
            LET r == EvictLoop(q, size) IN
            /\ q' = r.q
            /\ DOMAIN cache' = DOMAIN cache \ Range(r.gone)
            /\ Len(r.gone) <= 1
            /\ (evictedCallback /\ r.gone # <<>>) => pending'[p] = r.gone[1]
            /\ (evictedCallback /\ r.gone = <<>>) => pc'[p] = "idle"]_vars

\* C18: both caches: the callback runs while its goroutine holds the mutex, so
\* a callback that calls a public method of the cache waits for the mutex, and
\* goes on waiting in every later state: the method it called and the Add or
\* Unpin that evicted never return, and the mutex is never released.
C18_ReentrantCallbackDeadlocks ==
    [][\A p \in procs :
        /\ pc[p] = "callback" => lock = p
        /\ Reenter(p) => pc'[p] = "blocked"
        /\ pc[p] = "blocked" => (pc'[p] = "blocked" /\ lock' = p)]_vars

\* The callback of an Add called the cache and waits for the mutex that its
\* own goroutine holds.
C18_Witness ==
    \E p \in procs :
        /\ pc[p] = "blocked" /\ lock = p
        /\ call.op = "Add" /\ pending[p] \in Keys

\* Goroutine p is inside the loop of SegmentCache.evict.
InLoop(p) == kind = "SegmentCache" /\ pc[p] \in {"loop", "callback"}

\* C19: both caches, any number of callers, size and capacity >= 0, weights
\* >= 0: in every state, when the condition of evict holds (the queue is longer
\* than size, the used capacity is above the capacity) the queue is not empty,
\* so that evict never takes the last entry of an empty queue; and the loop of
\* SegmentCache.evict ends after at most Len() removals: every iteration removes
\* one entry of the queue, under the mutex, and no step adds one while a
\* goroutine is inside the loop.
C19_EvictionSafeAndBounded ==
    [][/\ (kind = "Cache" /\ Over(Len(q), size)) => q # <<>>
       /\ (kind = "SegmentCache" /\ SegOver(usedCapacity, capacity)) => segQ # <<>>
       /\ \A p \in procs :
            /\ pc[p] # "panic" /\ pc'[p] # "panic"
            /\ (SegEvict(p) /\ InLoop(p)') =>
                  /\ Len(segQ') = Len(segQ) - 1
                  /\ Cardinality(DOMAIN segCache') = Cardinality(DOMAIN segCache) - 1
                  /\ lock' = p
            /\ InLoop(p) =>
                  /\ lock = p
                  /\ Len(segQ') <= Len(segQ)
                  /\ Len(segQ) = Cardinality(DOMAIN segCache)]_vars

\* The loop of one goroutine has removed two entries, its own and the one of
\* another goroutine's unfinished Add, and finds the queue empty and the used
\* capacity within the capacity.
C19_Witness ==
    /\ kind = "SegmentCache"
    /\ \E p \in procs :
        /\ pc[p] = "loop" /\ segQ = <<>>
        /\ ~SegOver(usedCapacity, capacity)
        /\ \E o \in procs \ {p} : pc[o] = "evict"
    /\ Len(evicted) >= 2

\* C20: Cache, size >= 1, several callers: whatever the other callers do in
\* between, the entry that the evict of an Add of a new key k removes is the
\* one that was last in the queue, the least recently used, when k was put in,
\* and it is never k.
C20_AddEvictsItsOwnVictim ==
    [][\A p \in procs :
        (size >= 1 /\ inflight[p].op = "Add" /\ Evict(p)) =>
            \A v \in DOMAIN cache \ DOMAIN cache' :
                /\ v # inflight[p].key
                /\ v = inflight[p].lru]_vars

====
